---- MODULE Spec2Model ----
(***************************************************************************)
(* Model of pdb2sql/transform.py: the rotation sampler, the rotation and   *)
(* translation kernels, and the four database-level transforms that read   *)
(* a selection through db.get, transform it and write it back through      *)
(* db.update.                                                              *)
(*                                                                         *)
(* Real numbers are modelled as exact rationals <<n, d>> (d > 0, lowest    *)
(* terms).  Angles are integer multiples of pi/2 ("quarter turns"), for    *)
(* which cos and sin are exactly 0, 1 or -1.  An optional argument is a    *)
(* sequence of length 0 (None) or 1 (the value).                           *)
(***************************************************************************)
EXTENDS Integers, Sequences, FiniteSets, TLC

(***************************************************************************)
(* Bounds of the model.                                                    *)
(***************************************************************************)
MaxPts == 2
CMax == 1
MaxCalls == 2
MaxSeed == 1

(***************************************************************************)
(* Exact rational arithmetic.                                              *)
(***************************************************************************)
Abs(n) == IF n < 0 THEN -n ELSE n

RECURSIVE Gcd(_, _)
Gcd(a, b) == IF b = 0 THEN a ELSE Gcd(b, a % b)

RNorm(n, d) == LET g == Gcd(Abs(n), d) IN <<n \div g, d \div g>>

RI(n) == <<n, 1>>

RAdd(a, b) == RNorm(a[1] * b[2] + b[1] * a[2], a[2] * b[2])

RSub(a, b) == RNorm(a[1] * b[2] - b[1] * a[2], a[2] * b[2])

RMul(a, b) == RNorm(a[1] * b[1], a[2] * b[2])

RDivInt(a, n) == RNorm(a[1], a[2] * n)

RSum3(a, b, c) == RAdd(a, RAdd(b, c))

RECURSIVE RSum(_)
RSum(s) == IF Len(s) = 0 THEN RI(0) ELSE RAdd(Head(s), RSum(Tail(s)))

(***************************************************************************)
(* numpy array operations on points (rows of 3 reals) and 3x3 matrices.    *)
(***************************************************************************)
PInt(x, y, z) == <<RI(x), RI(y), RI(z)>>

PAdd(p, q) == <<RAdd(p[1], q[1]), RAdd(p[2], q[2]), RAdd(p[3], q[3])>>

PSub(p, q) == <<RSub(p[1], q[1]), RSub(p[2], q[2]), RSub(p[3], q[3])>>

Dot3(a, b) == RSum3(RMul(a[1], b[1]), RMul(a[2], b[2]), RMul(a[3], b[3]))

\* np.dot(M, p) for one column p
MatVec(M, p) == <<Dot3(M[1], p), Dot3(M[2], p), Dot3(M[3], p)>>

Col(B, c) == <<B[1][c], B[2][c], B[3][c]>>

\* np.dot(A, B) for two 3x3 matrices
MatMul(A, B) ==
    << <<Dot3(A[1], Col(B, 1)), Dot3(A[1], Col(B, 2)), Dot3(A[1], Col(B, 3))>>,
       <<Dot3(A[2], Col(B, 1)), Dot3(A[2], Col(B, 2)), Dot3(A[2], Col(B, 3))>>,
       <<Dot3(A[3], Col(B, 1)), Dot3(A[3], Col(B, 2)), Dot3(A[3], Col(B, 3))>> >>

\* the sum of the rows of an (N,3) array
RECURSIVE SumRows(_)
SumRows(xyz) ==
    IF Len(xyz) = 0 THEN PInt(0, 0, 0) ELSE PAdd(Head(xyz), SumRows(Tail(xyz)))

\* np.mean(xyz, 0) of a non-empty (N,3) array: the per-column mean
np_mean_axis0(xyz) ==
    LET t == SumRows(xyz)
    IN  <<RDivInt(t[1], Len(xyz)), RDivInt(t[2], Len(xyz)), RDivInt(t[3], Len(xyz))>>

\* np.mean(xyz) of a non-empty (N,3) array: one scalar, the mean of all 3N entries
np_mean_all(xyz) ==
    LET t == SumRows(xyz)
    IN  RDivInt(RSum3(t[1], t[2], t[3]), 3 * Len(xyz))

\* np.cos / np.sin of k quarter turns
np_cos(k) == RI(<<1, 0, -1, 0>>[(k % 4) + 1])

np_sin(k) == RI(<<0, 1, 0, -1>>[(k % 4) + 1])

(***************************************************************************)
(* The kernels.  Each returns a record: st is "ok" or the exception        *)
(* raised, xyz the rotated rows, nanCenter whether the mean of an empty    *)
(* array (NaN) was taken as the centre.                                    *)
(*                                                                         *)
(* np.array([]) of an empty row list has shape (0,): np.mean gives NaN     *)
(* with a warning only, and np.dot of a (3,3) matrix with it raises        *)
(* ValueError (shapes not aligned).                                        *)
(***************************************************************************)
KOut(st, xyz, nan) == [st |-> st, xyz |-> xyz, nanCenter |-> nan]

rot_xyz_around_axis_signflip(xyz, axis, angle, center) ==
    LET ct == np_cos(angle)
        st == np_sin(angle)
        ux == axis[1]
        uy == axis[2]
        uz == axis[3]
        omc == RSub(RI(1), ct)
        rot_mat ==
          << << RAdd(ct, RMul(RMul(ux, ux), omc)),
                RAdd(RMul(RMul(ux, uy), omc), RMul(uz, st)),
                RAdd(RMul(RMul(ux, uz), omc), RMul(uy, st)) >>,
             << RAdd(RMul(RMul(uy, ux), omc), RMul(uz, st)),
                RAdd(ct, RMul(RMul(uy, uy), omc)),
                RSub(RMul(RMul(uy, uz), omc), RMul(ux, st)) >>,
             << RSub(RMul(RMul(uz, ux), omc), RMul(uy, st)),
                RAdd(RMul(RMul(uz, uy), omc), RMul(ux, st)),
                RAdd(ct, RMul(RMul(uz, uz), omc)) >> >>
    IN  IF Len(xyz) = 0
        THEN KOut("ValueError", <<>>, Len(center) = 0)
        ELSE LET c == IF Len(center) = 0 THEN np_mean_axis0(xyz) ELSE center[1]
             IN  KOut("ok",
                      [i \in 1..Len(xyz) |-> PAdd(MatVec(rot_mat, PSub(xyz[i], c)), c)],
                      FALSE)

rot_xyz_around_axis(xyz, axis, angle, center) ==
    LET ct == np_cos(angle)
        st == np_sin(angle)
        ux == axis[1]
        uy == axis[2]
        uz == axis[3]
        omc == RSub(RI(1), ct)
        rot_mat ==
          << << RAdd(ct, RMul(RMul(ux, ux), omc)),
                RSub(RMul(RMul(ux, uy), omc), RMul(uz, st)),
                RAdd(RMul(RMul(ux, uz), omc), RMul(uy, st)) >>,
             << RAdd(RMul(RMul(uy, ux), omc), RMul(uz, st)),
                RAdd(ct, RMul(RMul(uy, uy), omc)),
                RSub(RMul(RMul(uy, uz), omc), RMul(ux, st)) >>,
             << RSub(RMul(RMul(uz, ux), omc), RMul(uy, st)),
                RAdd(RMul(RMul(uz, uy), omc), RMul(ux, st)),
                RAdd(ct, RMul(RMul(uz, uz), omc)) >> >>
    IN  IF Len(xyz) = 0
        THEN KOut("ValueError", <<>>, Len(center) = 0)
        ELSE LET c == IF Len(center) = 0 THEN np_mean_axis0(xyz) ELSE center[1]
             IN  KOut("ok",
                      [i \in 1..Len(xyz) |-> PAdd(MatVec(rot_mat, PSub(xyz[i], c)), c)],
                      FALSE)

_rotation_euler_xyz_order(xyz, alpha, beta, gamma) ==
    LET ca == np_cos(alpha)
        sa == np_sin(alpha)
        cb == np_cos(beta)
        sb == np_sin(beta)
        cg == np_cos(gamma)
        sg == np_sin(gamma)
        neg(r) == RSub(RI(0), r)
        rx == << <<RI(1), RI(0), RI(0)>>, <<RI(0), ca, neg(sa)>>, <<RI(0), sa, ca>> >>
        ry == << <<cb, RI(0), sb>>, <<RI(0), RI(1), RI(0)>>, <<neg(sb), RI(0), cb>> >>
        rz == << <<cg, neg(sg), RI(0)>>, <<sg, cg, RI(0)>>, <<RI(0), RI(0), RI(1)>> >>
        rot_mat == MatMul(rx, MatMul(ry, rz))
    IN  IF Len(xyz) = 0
        THEN KOut("ValueError", <<>>, TRUE)
        ELSE LET xyz0 == np_mean_axis0(xyz)
             IN  KOut("ok",
                      [i \in 1..Len(xyz) |->
                          PAdd(MatVec(rot_mat, PSub(xyz[i], xyz0)), xyz0)],
                      FALSE)

_rotation_euler(xyz, alpha, beta, gamma) ==
    LET ca == np_cos(alpha)
        sa == np_sin(alpha)
        cb == np_cos(beta)
        sb == np_sin(beta)
        cg == np_cos(gamma)
        sg == np_sin(gamma)
        neg(r) == RSub(RI(0), r)
        rx == << <<RI(1), RI(0), RI(0)>>, <<RI(0), ca, neg(sa)>>, <<RI(0), sa, ca>> >>
        ry == << <<cb, RI(0), sb>>, <<RI(0), RI(1), RI(0)>>, <<neg(sb), RI(0), cb>> >>
        rz == << <<cg, neg(sg), RI(0)>>, <<sg, cg, RI(0)>>, <<RI(0), RI(0), RI(1)>> >>
        rot_mat == MatMul(rz, MatMul(ry, rx))
    IN  IF Len(xyz) = 0
        THEN KOut("ValueError", <<>>, TRUE)
        ELSE LET xyz0 == np_mean_axis0(xyz)
             IN  KOut("ok",
                      [i \in 1..Len(xyz) |->
                          PAdd(MatVec(rot_mat, PSub(xyz[i], xyz0)), xyz0)],
                      FALSE)

\* center is the third argument as the caller passed it: kind "bool" (b is
\* its value; the default is True), or kind "list" / "ndarray" (a point p
\* handed in as the rotation centre).  `if center:` is true of a non-empty
\* list and raises ValueError on an array of three elements.
rotation_matrix(xyz, rot_mat, center) ==
    IF center.kind = "ndarray"
    THEN KOut("ValueError", <<>>, FALSE)
    ELSE IF Len(xyz) = 0
    THEN KOut("ValueError", <<>>, center.kind = "list" \/ center.b)
    ELSE IF center.kind = "list" \/ center.b
    THEN LET m == np_mean_all(xyz)
             xyz0 == <<m, m, m>>
         IN  KOut("ok",
                  [i \in 1..Len(xyz) |-> PAdd(MatVec(rot_mat, PSub(xyz[i], xyz0)), xyz0)],
                  FALSE)
    ELSE KOut("ok", [i \in 1..Len(xyz) |-> MatVec(rot_mat, xyz[i])], FALSE)

(***************************************************************************)
(* translation, line 39: xyz += vect.  Adding a 3-vector to the shape-(0,) *)
(* array of an empty selection cannot be broadcast and raises ValueError.  *)
(***************************************************************************)
xyz_iadd_reversed(xyz, vect) ==
    IF Len(xyz) = 0
    THEN KOut("ValueError", <<>>, FALSE)
    ELSE KOut("ok", [i \in 1..Len(xyz) |-> PAdd(xyz[Len(xyz) + 1 - i], vect)], FALSE)

xyz_iadd(xyz, vect) ==
    IF Len(xyz) = 0
    THEN KOut("ValueError", <<>>, FALSE)
    ELSE KOut("ok", [i \in 1..Len(xyz) |-> PAdd(xyz[i], vect)], FALSE)

(***************************************************************************)
(* Names bound at module level of transform.py, and the local names of     *)
(* get_rot_axis_angle at its return statement.  Reading any other name     *)
(* raises NameError.                                                       *)
(***************************************************************************)
ModuleNames ==
    {"np", "time", "pdb2sql", "get_rot_axis_angle", "translation", "rot_axis",
     "rot_euler", "rot_mat", "rot_xyz_around_axis", "_rotation_euler",
     "rotation_matrix", "_get_xyz", "_update"}

SamplerLocals == {"seed", "u1", "u2", "teta", "phi", "axis"}

(***************************************************************************)
(* The numpy global generator, abstracted to a full-period congruential    *)
(* generator on eight states whose draws are 0 or 1/2 (in half units), so  *)
(* that the sampled angles are multiples of pi/2.                          *)
(***************************************************************************)
np_random_seed(seed) == seed % 8

np_random_rand(s) == [u2x |-> s \div 4, next |-> (5 * s + 3) % 8]

\* np.arccos of -1, 0, 1 in quarter turns
np_arccos(c) == <<2, 1, 0>>[c + 2]

(***************************************************************************)
(* The coordinate accessor (pdb2sqlcore, not part of transform.py).  A row *)
(* is [chainID, xyz].  A selection is the keyword arguments handed to      *)
(* db.get / db.update: "all" (none), a chainID value, or "bad" (a keyword  *)
(* the accessor rejects).                                                  *)
(***************************************************************************)
Matches(row, sel) == sel = "all" \/ row.chainID = sel

RowSet(store, sel) == {i \in 1..Len(store) : Matches(store[i], sel)}

db_get(store, sel) ==
    IF sel = "bad"
    THEN [st |-> "AccessorError", xyz |-> <<>>]
    ELSE [st |-> "ok",
          xyz |-> LET m == SelectSeq(store, LAMBDA row : Matches(row, sel))
                  IN  [i \in 1..Len(m) |-> m[i].xyz]]

db_update(store, xyz, sel) ==
    IF sel = "bad"
    THEN [st |-> "AccessorError", db |-> store]
    ELSE IF Len(xyz) # Cardinality(RowSet(store, sel))
    THEN [st |-> "ContractViolation", db |-> store]
    ELSE [st |-> "ok",
          db |-> [i \in 1..Len(store) |->
                    IF i \in RowSet(store, sel)
                    THEN [store[i] EXCEPT
                            !.xyz = xyz[Cardinality({k \in RowSet(store, sel) : k <= i})]]
                    ELSE store[i]]]

_get_xyz(store, sel) == db_get(store, sel)

_update(store, xyz, sel) == db_update(store, xyz, sel)

(***************************************************************************)
(* State.                                                                  *)
(*   db       the accessor's rows                                          *)
(*   rng      state of the numpy global generator                          *)
(*   calls    number of calls made so far                                  *)
(*   last     record of the last call: its outcome and what it did         *)
(*   db0      the rows at the start (history)                              *)
(*   touched  rows that were in the selection of some call (history)       *)
(*   seen     per seed, the outcomes the sampler produced (history)        *)
(*   kin, kcall, kout   input, call and result of a direct kernel call     *)
(***************************************************************************)
VARIABLES db, rng, calls, last, db0, touched, seen, kin, kcall, kout

vars == <<db, rng, calls, last, db0, touched, seen, kin, kcall, kout>>

progvars == <<db, rng, calls, last, db0, touched, seen>>

kernvars == <<kin, kcall, kout>>

NRows == 3

ChainOf(i) == IF i <= 2 THEN "A" ELSE "B"

InitXyz(i) == IF i = 1 THEN {PInt(1, 0, 0), PInt(0, 1, 1)} ELSE {PInt(0, i, 1)}

InitStores ==
    {s \in [1..NRows -> [chainID : {"A", "B"}, xyz : UNION {InitXyz(i) : i \in 1..NRows}]] :
        \A i \in 1..NRows : s[i].chainID = ChainOf(i) /\ s[i].xyz \in InitXyz(i)}

Sels == {"all", "A", "B", "C", "bad"}

Seeds == {<<>>} \cup {<<s>> : s \in -1..MaxSeed}

Vects == {PInt(1, 2, 3)}

Axes == {PInt(1, 0, 0), PInt(0, 0, 1)}

Angles == {-1, 1}

EulerAngles == {<<1, 0, 0>>, <<1, 1, 0>>}

Rz90 == << <<RI(0), RI(-1), RI(0)>>, <<RI(1), RI(0), RI(0)>>, <<RI(0), RI(0), RI(1)>> >>

Rx90 == << <<RI(1), RI(0), RI(0)>>, <<RI(0), RI(0), RI(-1)>>, <<RI(0), RI(1), RI(0)>> >>

Ry180 == << <<RI(-1), RI(0), RI(0)>>, <<RI(0), RI(1), RI(0)>>, <<RI(0), RI(0), RI(-1)>> >>

Mats == {Rz90}

NoCall ==
    [op |-> "none", sel |-> "", args |-> <<>>, st |-> "none", stage |-> "none",
     log |-> <<>>, read |-> <<>>, written |-> <<>>, nanCenter |-> FALSE,
     before |-> <<>>, ret |-> <<>>]

NoKCall == [op |-> "none", args |-> <<>>]

Init ==
    /\ db \in InitStores
    /\ db0 = db
    /\ rng \in {0, 5}
    /\ calls = 0
    /\ last = NoCall
    /\ touched = {}
    /\ seen = [s \in Seeds |-> {}]
    /\ kin = <<>>
    /\ kcall = NoKCall
    /\ kout = KOut("none", <<>>, FALSE)

\* what every database-level transform leaves behind
Finish(op, args, sel, st, stage, log, read, written, nan, newdb) ==
    /\ db' = newdb
    /\ last' = [op |-> op, sel |-> sel, args |-> args, st |-> st, stage |-> stage,
                log |-> log, read |-> read, written |-> written, nanCenter |-> nan,
                before |-> db, ret |-> <<>>]
    /\ calls' = calls + 1
    /\ touched' = touched \cup (IF sel = "bad" THEN {} ELSE RowSet(db, sel))
    /\ UNCHANGED <<db0, seen, kernvars>>

(***************************************************************************)
(* get_rot_axis_angle(seed), lines 11-34.                                  *)
(***************************************************************************)
SamplerDone(seed, st, ret, newrng) ==
    /\ rng' = newrng
    /\ last' = [NoCall EXCEPT !.op = "get_rot_axis_angle", !.args = <<seed>>,
                              !.st = st, !.stage = "done", !.before = db, !.ret = ret]
    /\ seen' = [seen EXCEPT ![seed] = @ \cup {[st |-> st, ret |-> ret]}]
    /\ calls' = calls + 1
    /\ UNCHANGED <<db, db0, touched, kernvars>>

get_rot_axis_angle(seed) ==
    /\ calls < MaxCalls
    /\ IF Len(seed) = 1 /\ seed[1] < 0
       THEN \* np.random.seed rejects a negative seed
            SamplerDone(seed, "ValueError", <<>>, rng)
       ELSE LET s0 == IF Len(seed) = 1 THEN np_random_seed(seed[1]) ELSE rng
                d1 == np_random_rand(s0)
                d2 == np_random_rand(d1.next)
                \* cos(teta) = 2 * u1 - 1, phi = 2 * pi * u2
                teta == np_arccos(d1.u2x - 1)
                phi == 2 * d2.u2x
                axis == << RMul(np_sin(teta), np_cos(phi)),
                           RMul(np_sin(teta), np_sin(phi)),
                           np_cos(teta) >>
            IN  IF "angle" \in SamplerLocals \cup ModuleNames
                THEN LET d3 == np_random_rand(d2.next)
                     IN  SamplerDone(seed, "ok", <<axis, 2 * d3.u2x>>, d3.next)
                ELSE SamplerDone(seed, "NameError", <<>>, d2.next)

(***************************************************************************)
(* translation(db, vect, **kwargs), lines 37-40.                           *)
(***************************************************************************)
translation(vect, sel) ==
    /\ calls < MaxCalls
    /\ rng' = rng
    /\ LET r == _get_xyz(db, sel)
           k == xyz_iadd(r.xyz, vect)
           w == _update(db, k.xyz, sel)
           get == <<"get", sel>>
           upd == <<"update", sel>>
       IN  IF r.st # "ok"
           THEN Finish("translation", <<vect>>, sel, r.st, "read", <<get>>,
                       <<>>, <<>>, FALSE, db)
           ELSE IF k.st # "ok"
           THEN Finish("translation", <<vect>>, sel, k.st, "compute", <<get>>,
                       r.xyz, <<>>, k.nanCenter, db)
           ELSE Finish("translation", <<vect>>, sel, w.st,
                       IF w.st = "ok" THEN "done" ELSE "write", <<get, upd>>,
                       r.xyz, k.xyz, k.nanCenter, w.db)

(***************************************************************************)
(* rot_axis(db, axis, angle, **kwargs), lines 43-46.                       *)
(***************************************************************************)
rot_axis_write_first(axis, angle, sel) ==
    /\ calls < MaxCalls
    /\ rng' = rng
    /\ LET r == _get_xyz(db, sel)
           w0 == _update(db, r.xyz, sel)
           k == rot_xyz_around_axis(r.xyz, axis, angle, <<>>)
           w == _update(db, k.xyz, sel)
           get == <<"get", sel>>
           upd == <<"update", sel>>
       IN  IF r.st # "ok"
           THEN Finish("rot_axis", <<axis, angle>>, sel, r.st, "read", <<get>>,
                       <<>>, <<>>, FALSE, db)
           ELSE IF k.st # "ok"
           THEN Finish("rot_axis", <<axis, angle>>, sel, k.st, "compute", <<get, upd>>,
                       r.xyz, r.xyz, k.nanCenter, w0.db)
           ELSE Finish("rot_axis", <<axis, angle>>, sel, w.st,
                       IF w.st = "ok" THEN "done" ELSE "write", <<get, upd>>,
                       r.xyz, k.xyz, k.nanCenter, w.db)

rot_axis(axis, angle, sel) ==
    /\ calls < MaxCalls
    /\ rng' = rng
    /\ LET r == _get_xyz(db, sel)
           k == rot_xyz_around_axis(r.xyz, axis, angle, <<>>)
           w == _update(db, k.xyz, sel)
           get == <<"get", sel>>
           upd == <<"update", sel>>
       IN  IF r.st # "ok"
           THEN Finish("rot_axis", <<axis, angle>>, sel, r.st, "read", <<get>>,
                       <<>>, <<>>, FALSE, db)
           ELSE IF k.st # "ok"
           THEN Finish("rot_axis", <<axis, angle>>, sel, k.st, "compute", <<get>>,
                       r.xyz, <<>>, k.nanCenter, db)
           ELSE Finish("rot_axis", <<axis, angle>>, sel, w.st,
                       IF w.st = "ok" THEN "done" ELSE "write", <<get, upd>>,
                       r.xyz, k.xyz, k.nanCenter, w.db)

(***************************************************************************)
(* rot_euler(db, alpha, beta, gamma, **kwargs), lines 49-61.               *)
(***************************************************************************)
rot_euler(alpha, beta, gamma, sel) ==
    /\ calls < MaxCalls
    /\ rng' = rng
    /\ LET r == _get_xyz(db, sel)
           k == _rotation_euler(r.xyz, alpha, beta, gamma)
           w == _update(db, k.xyz, sel)
           get == <<"get", sel>>
           upd == <<"update", sel>>
       IN  IF r.st # "ok"
           THEN Finish("rot_euler", <<alpha, beta, gamma>>, sel, r.st, "read", <<get>>,
                       <<>>, <<>>, FALSE, db)
           ELSE IF k.st # "ok"
           THEN Finish("rot_euler", <<alpha, beta, gamma>>, sel, k.st, "compute", <<get>>,
                       r.xyz, <<>>, k.nanCenter, db)
           ELSE Finish("rot_euler", <<alpha, beta, gamma>>, sel, w.st,
                       IF w.st = "ok" THEN "done" ELSE "write", <<get, upd>>,
                       r.xyz, k.xyz, k.nanCenter, w.db)

(***************************************************************************)
(* rot_mat(db, mat, **kwargs), lines 64-76.  The kernel is called under    *)
(* the name _rotation_matrix, which the module does not define (the kernel *)
(* is rotation_matrix): the call raises NameError after the read.  The     *)
(* update of line 74 and the draw of line 76 follow the kernel call.       *)
(***************************************************************************)
rot_mat(mat, sel) ==
    /\ calls < MaxCalls
    /\ LET r == _get_xyz(db, sel)
           k == rotation_matrix(r.xyz, mat, [kind |-> "bool", b |-> TRUE, p |-> <<>>])
           w == _update(db, k.xyz, sel)
           get == <<"get", sel>>
           upd == <<"update", sel>>
       IN  IF r.st # "ok"
           THEN /\ rng' = rng
                /\ Finish("rot_mat", <<mat>>, sel, r.st, "read", <<get>>,
                          <<>>, <<>>, FALSE, db)
           ELSE IF "_rotation_matrix" \notin ModuleNames
           THEN /\ rng' = rng
                /\ Finish("rot_mat", <<mat>>, sel, "NameError", "compute", <<get>>,
                          r.xyz, <<>>, FALSE, db)
           ELSE IF k.st # "ok"
           THEN /\ rng' = rng
                /\ Finish("rot_mat", <<mat>>, sel, k.st, "compute", <<get>>,
                          r.xyz, <<>>, k.nanCenter, db)
           ELSE IF w.st # "ok"
           THEN /\ rng' = rng
                /\ Finish("rot_mat", <<mat>>, sel, w.st, "write", <<get, upd>>,
                          r.xyz, k.xyz, k.nanCenter, w.db)
           ELSE /\ rng' = np_random_rand(rng).next
                /\ Finish("rot_mat", <<mat>>, sel, "ok", "done", <<get, upd>>,
                          r.xyz, k.xyz, k.nanCenter, w.db)

Next ==
    \/ \E seed \in Seeds : get_rot_axis_angle(seed)
    \/ \E vect \in Vects, sel \in Sels : translation(vect, sel)
    \/ \E axis \in Axes, angle \in Angles, sel \in Sels : rot_axis(axis, angle, sel)
    \/ \E e \in EulerAngles, sel \in Sels : rot_euler(e[1], e[2], e[3], sel)
    \/ \E mat \in Mats, sel \in Sels : rot_mat(mat, sel)

Spec == Init /\ [][Next]_vars

(***************************************************************************)
(* Direct calls of the three rotation kernels on a point set kin.          *)
(***************************************************************************)
\* rows on the coordinate axes, and one row off them
Grid ==
    {PInt(x, 0, 0) : x \in -CMax..CMax} \cup {PInt(0, y, 0) : y \in -CMax..CMax}
        \cup {PInt(0, 0, z) : z \in -CMax..CMax} \cup {PInt(1, 2, 3)}

PointSets == UNION {[1..n -> Grid] : n \in 0..MaxPts}

KAxes == {PInt(1, 0, 0), PInt(0, 1, 0), PInt(0, 0, 1), PInt(0, 0, -1)}

QuarterTurns == -1..2

KCenters == {<<>>, <<PInt(1, 0, 0)>>}

KMats == {Rz90, Rx90, Ry180}

KMatCenters ==
    {[kind |-> "bool", b |-> TRUE, p |-> <<>>],
     [kind |-> "bool", b |-> FALSE, p |-> <<>>],
     [kind |-> "list", b |-> TRUE, p |-> PInt(1, 0, 0)],
     [kind |-> "ndarray", b |-> TRUE, p |-> PInt(1, 0, 0)]}

KInit ==
    /\ kin \in PointSets
    /\ kcall = NoKCall
    /\ kout = KOut("none", <<>>, FALSE)
    /\ db = <<>>
    /\ db0 = <<>>
    /\ rng = 0
    /\ calls = 0
    /\ last = NoCall
    /\ touched = {}
    /\ seen = [s \in Seeds |-> {}]

call_rot_xyz_around_axis(axis, angle, center) ==
    /\ kcall.op = "none"
    /\ kcall' = [op |-> "rot_xyz_around_axis", args |-> <<axis, angle, center>>]
    /\ kout' = rot_xyz_around_axis(kin, axis, angle, center)
    /\ UNCHANGED <<kin, progvars>>

call_rotation_euler(alpha, beta, gamma) ==
    /\ kcall.op = "none"
    /\ kcall' = [op |-> "_rotation_euler", args |-> <<alpha, beta, gamma>>]
    /\ kout' = _rotation_euler(kin, alpha, beta, gamma)
    /\ UNCHANGED <<kin, progvars>>

call_rotation_matrix(mat, center) ==
    /\ kcall.op = "none"
    /\ kcall' = [op |-> "rotation_matrix", args |-> <<mat, center>>]
    /\ kout' = rotation_matrix(kin, mat, center)
    /\ UNCHANGED <<kin, progvars>>

KNext ==
    \/ \E axis \in KAxes, angle \in QuarterTurns, center \in KCenters :
          call_rot_xyz_around_axis(axis, angle, center)
    \/ \E alpha \in QuarterTurns, beta \in QuarterTurns, gamma \in QuarterTurns :
          call_rotation_euler(alpha, beta, gamma)
    \/ \E mat \in KMats, center \in KMatCenters : call_rotation_matrix(mat, center)

SpecKernel == KInit /\ [][KNext]_vars

(***************************************************************************)
(* Vocabulary of the properties.                                           *)
(***************************************************************************)
Transforms == {"translation", "rot_axis", "rot_euler", "rot_mat"}

Rotations == {"rot_axis", "rot_euler", "rot_mat"}

Origin == PInt(0, 0, 0)

Dist2(p, q) == Dot3(PSub(p, q), PSub(p, q))

\* the arithmetic mean of the rows of a non-empty point set
Centroid(P) ==
    <<RDivInt(RSum([i \in 1..Len(P) |-> P[i][1]]), Len(P)),
      RDivInt(RSum([i \in 1..Len(P) |-> P[i][2]]), Len(P)),
      RDivInt(RSum([i \in 1..Len(P) |-> P[i][3]]), Len(P))>>

HasUpdate(log) == \E j \in 1..Len(log) : log[j][1] = "update"

\* elemental rotations of one point by k quarter turns about x, y, z
ElemX(k, p) ==
    <<p[1],
      RSub(RMul(np_cos(k), p[2]), RMul(np_sin(k), p[3])),
      RAdd(RMul(np_sin(k), p[2]), RMul(np_cos(k), p[3]))>>

ElemY(k, p) ==
    <<RAdd(RMul(np_cos(k), p[1]), RMul(np_sin(k), p[3])),
      p[2],
      RSub(RMul(np_cos(k), p[3]), RMul(np_sin(k), p[1]))>>

ElemZ(k, p) ==
    <<RSub(RMul(np_cos(k), p[1]), RMul(np_sin(k), p[2])),
      RAdd(RMul(np_sin(k), p[1]), RMul(np_cos(k), p[2])),
      p[3]>>

(***************************************************************************)
(* C1: the sampler always succeeds: every call of get_rot_axis_angle       *)
(* returns a pair (axis, angle) with axis a unit vector and angle in       *)
(* [0, 2*pi), i.e. 0..3 quarter turns.                                     *)
(***************************************************************************)
C1_SamplerAlwaysSucceeds ==
    last.op = "get_rot_axis_angle" =>
        /\ last.st = "ok"
        /\ Len(last.ret) = 2
        /\ Dot3(last.ret[1], last.ret[1]) = RI(1)
        /\ last.ret[2] \in 0..3

(***************************************************************************)
(* C2: the sampler is deterministic under a seed: all calls with the same  *)
(* seed return a result, and the same one.                                 *)
(***************************************************************************)
C2_SeedDeterminism ==
    \A seed \in Seeds :
        Len(seed) = 1 =>
            /\ \A o \in seen[seed] : o.st = "ok"
            /\ Cardinality(seen[seed]) <= 1

(***************************************************************************)
(* C3: every transform call on a non-empty selection issues exactly one    *)
(* db.get followed by exactly one db.update, both with the call's          *)
(* selection, the update being the last accessor operation.                *)
(***************************************************************************)
C3_OneReadThenOneWrite ==
    (last.op \in Transforms /\ last.stage # "read" /\ Len(last.read) > 0) =>
        last.log = << <<"get", last.sel>>, <<"update", last.sel>> >>

(***************************************************************************)
(* C4: rows outside the selection of every call keep their initial         *)
(* coordinates, and the point set written has as many rows as the point    *)
(* set read, row i written being the image of row i read.                  *)
(***************************************************************************)
C4_FrameAndShape ==
    /\ \A i \in 1..Len(db) : i \notin touched => db[i] = db0[i]
    /\ (last.op \in Transforms /\ HasUpdate(last.log)) =>
          /\ Len(last.written) = Len(last.read)
          /\ last.op = "translation" =>
                \A i \in 1..Len(last.read) :
                    last.written[i] = PAdd(last.read[i], last.args[1])
          /\ last.op \in {"rot_axis", "rot_euler"} =>
                \A i \in 1..Len(last.read) :
                    Dist2(last.written[i], Centroid(last.read))
                        = Dist2(last.read[i], Centroid(last.read))

C4_Witness ==
    /\ calls = 2
    /\ last.op = "translation"
    /\ last.stage = "done"
    /\ Len(last.read) = 2
    /\ last.read[1] # last.read[2]
    /\ last.before # db0
    /\ \E i \in 1..Len(db) : i \notin touched

(***************************************************************************)
(* C5: no partial writes: a call whose read or compute step fails ends in  *)
(* an error with no db.update issued and the stored rows as before.        *)
(***************************************************************************)
C5_NoPartialWrite ==
    (last.op \in Transforms /\ last.stage \in {"read", "compute"}) =>
        /\ last.st \notin {"ok", "none"}
        /\ ~HasUpdate(last.log)
        /\ db = last.before

C5_Witness ==
    /\ calls = 2
    /\ last.op = "rot_axis"
    /\ last.stage = "compute"
    /\ last.before # db0
    /\ db = last.before

(***************************************************************************)
(* C6: a rotation transform on a selection matching zero rows signals the  *)
(* defined empty-selection error, without taking the centroid of the empty *)
(* point set (a NaN centre) and without writing.                           *)
(***************************************************************************)
C6_EmptySelectionError ==
    (last.op \in Rotations /\ last.stage # "read" /\ Len(last.read) = 0) =>
        /\ last.st = "EmptySelection"
        /\ ~last.nanCenter
        /\ ~HasUpdate(last.log)

(***************************************************************************)
(* C7: the explicit-matrix kernel rotates about the centroid (the          *)
(* per-coordinate mean) when no centre is given, and about the supplied    *)
(* point when one is given: row i of the result is R * (P[i] - c) + c.     *)
(***************************************************************************)
C7_MatrixAboutCentroid ==
    (kcall.op = "rotation_matrix" /\ Len(kin) > 0
        /\ (kcall.args[2].kind # "bool" \/ kcall.args[2].b)) =>
        LET c == IF kcall.args[2].kind = "bool" THEN Centroid(kin) ELSE kcall.args[2].p
        IN  /\ kout.st = "ok"
            /\ Len(kout.xyz) = Len(kin)
            /\ \A i \in 1..Len(kin) :
                  kout.xyz[i] = PAdd(MatVec(kcall.args[1], PSub(kin[i], c)), c)

(***************************************************************************)
(* C8: the Euler kernel applies the x rotation first, then y, then z,      *)
(* about the centroid: row i of the result is                              *)
(* Rz(gamma) (Ry(beta) (Rx(alpha) (P[i] - c))) + c.  With alpha = pi/2,    *)
(* beta = gamma = 0 and the centroid at the origin, (1,0,0) stays and      *)
(* (0,1,0) goes to (0,0,1).                                                *)
(***************************************************************************)
C8_EulerOrder ==
    (kcall.op = "_rotation_euler" /\ Len(kin) > 0) =>
        LET c == Centroid(kin)
            a == kcall.args[1]
            b == kcall.args[2]
            g == kcall.args[3]
        IN  /\ kout.st = "ok"
            /\ Len(kout.xyz) = Len(kin)
            /\ \A i \in 1..Len(kin) :
                  kout.xyz[i] = PAdd(ElemZ(g, ElemY(b, ElemX(a, PSub(kin[i], c)))), c)
            /\ (a = 1 /\ b = 0 /\ g = 0 /\ c = Origin) =>
                  \A i \in 1..Len(kin) :
                      /\ kin[i] = PInt(1, 0, 0) => kout.xyz[i] = PInt(1, 0, 0)
                      /\ kin[i] = PInt(0, 1, 0) => kout.xyz[i] = PInt(0, 0, 1)

C8_Witness ==
    /\ kcall.op = "_rotation_euler"
    /\ kcall.args = <<1, 0, 0>>
    /\ kin = <<PInt(0, 1, 0), PInt(0, -1, 0)>>
    /\ kout.xyz[1] = PInt(0, 0, 1)

(***************************************************************************)
(* C9: axis-angle rotation round-trips.  Kernel: rotating the rows read by *)
(* (u, a) and then by (u, -a) about the same centre gives the rows read.   *)
(* Database: rot_axis(u, a, sel) followed by rot_axis(u, -a, sel) leaves   *)
(* the stored rows as they were before the two calls.                      *)
(***************************************************************************)
C9_KernelRoundTrip ==
    (last.op = "rot_axis" /\ Len(last.read) > 0) =>
        \A c \in KCenters \cup {<<Centroid(last.read)>>} :
            LET u == last.args[1]
                a == last.args[2]
                there == rot_xyz_around_axis(last.read, u, a, c)
                back == rot_xyz_around_axis(there.xyz, u, -a, c)
            IN  there.st = "ok" /\ back.st = "ok" /\ back.xyz = last.read

C9_DbRoundTripStep ==
    (/\ calls' = calls + 1
     /\ last.op = "rot_axis" /\ last.stage = "done"
     /\ last'.op = "rot_axis"
     /\ last'.sel = last.sel
     /\ last'.args[1] = last.args[1]
     /\ last'.args[2] = -last.args[2]) =>
        /\ last'.stage = "done"
        /\ db' = last.before

C9_RoundTrip == [](C9_KernelRoundTrip) /\ [][C9_DbRoundTripStep]_vars

C9_Witness ==
    /\ calls = 2
    /\ last.op = "rot_axis"
    /\ last.stage = "done"
    /\ Len(last.read) = 2
    /\ last.before # db
    /\ last.args = <<PInt(0, 0, 1), -1>>
    /\ db = db0

(***************************************************************************)
(* C10: rotation is rigid for the three kernels (default centre): pairwise *)
(* squared distances are kept, every row keeps its distance to the         *)
(* centroid of the input, and the centroid itself is unchanged.            *)
(***************************************************************************)
C10_Rigid ==
    (/\ kcall.op \in {"rot_xyz_around_axis", "_rotation_euler", "rotation_matrix"}
     /\ Len(kin) > 0
     /\ kcall.op = "rot_xyz_around_axis" => kcall.args[3] = <<>>
     /\ kcall.op = "rotation_matrix" => (kcall.args[2].kind = "bool" /\ kcall.args[2].b)) =>
        /\ kout.st = "ok"
        /\ Len(kout.xyz) = Len(kin)
        /\ \A i, j \in 1..Len(kin) :
              Dist2(kout.xyz[i], kout.xyz[j]) = Dist2(kin[i], kin[j])
        /\ \A i \in 1..Len(kin) :
              Dist2(kout.xyz[i], Centroid(kin)) = Dist2(kin[i], Centroid(kin))
        /\ Centroid(kout.xyz) = Centroid(kin)

====
